---- MODULE Spec2Model ----
(***************************************************************************)
(* CircuitMind schematic analyzer: the page-classification and extraction  *)
(* pipeline (services/geminiService.ts, services/pdfService.ts), the       *)
(* orchestrator that owns the run state (App.tsx) and the result store     *)
(* (services/storageService.ts).                                           *)
(*                                                                         *)
(* A pipeline run is an async closure of handleFileSelected.  Each await   *)
(* of the closure is a step boundary: between two steps of a run the user  *)
(* may act (reset, load a project) and pending saves may resolve.          *)
(***************************************************************************)
EXTENDS Integers, Sequences, FiniteSets, TLC

\* ---------------------------------------------------------------- bounds
\* Largest page count of a PDF uploaded to the orchestrator.
MaxPdfPages == 2
\* Longest image sequence handed to detectSchematicPages on its own.
MaxImages == 6
\* Largest batch-local position a classification response names.
MaxLocalIdx == 2
\* Longest indices list of one classification response.
MaxRespLen == 2
\* Number of pipeline runs that may be in flight at the same time.
MaxRuns == 1
\* Number of project ids crypto.randomUUID hands out.
MaxIds == 1
\* Number of saveProject calls that may be in flight at the same time.
MaxPending == 1
\* Largest value of the Date.now() clock.
MaxClock == 1
\* Run slots of the specification of overlapping runs.
MaxOverlap == 2
\* Project ids and saveProject calls in flight in the specification of
\* edits of a completed project.
MaxEditIds == 2
MaxEditPending == 2
\* Number of exports of one session.
MaxExports == 2
\* Largest page count of a document in the specification of whole runs, and
\* the pages of it whose canvas may give no 2d context.
MaxDocPages == 22
MaxSkipped == 1
\* Longest component list the Add Component button is used on.
MaxComponents == 3

\* ------------------------------------------------------ program constants
BATCH_SIZE == 5
PAGE_CAP == 20

Runs == 1..MaxRuns

NULL == "null"
UNDEFINED == "undefined"

\* ---------------------------------------------------------------- helpers
Min(a, b) == IF a < b THEN a ELSE b

Range(s) == {s[j] : j \in 1..Len(s)}

SeqsUpTo(S, n) == UNION {[1..m -> S] : m \in 0..n}

\* JavaScript's (x || y) on strings: the empty string is falsy.
OrElse(x, y) == IF x = "" \/ x = UNDEFINED THEN y ELSE x

\* ------------------------------------------------------------ input files
\* A File: its MIME type and its name as a sequence of characters.
Files ==
  { [type |-> "application/pdf", name |-> <<"m", ".", "p">>],
    [type |-> "image/png",       name |-> <<"m", ".", "g">>] }

\* file.name.replace(/\.[^/.]+$/, ""): drop the last ".ext" when ext is a
\* non-empty run of characters other than "/" and ".".
RECURSIVE LastDot(_, _)
LastDot(name, j) ==
  IF j = 0 THEN 0
  ELSE IF name[j] = "." THEN j
  ELSE IF name[j] = "/" THEN 0
  ELSE LastDot(name, j - 1)

\* Variant of StripExtension that keeps the name as it is.
StripNothing(name) == name

StripExtension(name) ==
  LET d == LastDot(name, Len(name))
  IN IF d = 0 \/ d = Len(name) THEN name ELSE SubSeq(name, 1, d - 1)

\* ------------------------------------------------------------- rasterizer
\* A page image is identified by the number of the document page it
\* renders.
\* Variant of renderPages without the cap on the page count.
renderPagesUncapped(numPages, noContext) ==
  LET Rendered(p) == p \notin noContext
  IN SelectSeq([p \in 1..numPages |-> p], Rendered)

\* The loop of convertPdfToImages (lines 14-39): pages 1..min(numPages, 20)
\* in order; a page whose canvas gives no 2d context is skipped (line 24).
renderPages(numPages, noContext) ==
  LET pagesToProcess == Min(numPages, PAGE_CAP)
      Rendered(p) == p \notin noContext
  IN SelectSeq([p \in 1..pagesToProcess |-> p], Rendered)

\* convertPdfToImages when every canvas gives a context.
convertPdfToImages(numPages) == renderPages(numPages, {})

\* ------------------------------------------------------------- classifier
\* Variant of slice that includes the element at end.
sliceInclusive(arr, start, end) ==
  SubSeq(arr, start + 1, Min(end + 1, Len(arr)))

\* Array.prototype.slice(start, end) for 0 <= start <= end.
slice(arr, start, end) == SubSeq(arr, start + 1, Min(end, Len(arr)))

\* What one generateContent call of detectSchematicPages can yield.
IndexLists == SeqsUpTo(0..MaxLocalIdx, MaxRespLen)

ClassifyResponses ==
  [kind : {"throw", "emptytext", "unparsable", "noindices"}, indices : {<<>>}]
    \cup [kind : {"indices"}, indices : IndexLists]

\* Variant of BatchIndices that forgets the batch offset.
BatchIndicesLocal(resp, i) ==
  IF resp.kind = "indices" THEN resp.indices ELSE <<>>

\* Variant of BatchIndices that includes the first page of a failed batch.
BatchIndicesInclude(resp, i) ==
  IF resp.kind = "indices"
  THEN [j \in 1..Len(resp.indices) |-> resp.indices[j] + i]
  ELSE IF resp.kind = "emptytext" THEN <<>> ELSE <<i>>

\* The try block of one batch (lines 122-146): the indices this batch adds.
\* A thrown request, an unparsable text and a parsed object without an
\* indices array all end in the catch clause; an empty text skips the block.
BatchIndices(resp, i) ==
  IF resp.kind = "indices"
  THEN [j \in 1..Len(resp.indices) |-> resp.indices[j] + i]
  ELSE <<>>

\* -------------------------------------------------------------- extractor
\* Free-text strings the icon rules inspect are sequences of characters.
UpperCase == <<"A", "B", "C", "D", "E", "F", "G", "H", "I", "J", "K", "L", "M", "N", "O", "P", "Q", "R", "S", "T", "U", "V", "W", "X", "Y", "Z">>
LowerCase == <<"a", "b", "c", "d", "e", "f", "g", "h", "i", "j", "k", "l", "m", "n", "o", "p", "q", "r", "s", "t", "u", "v", "w", "x", "y", "z">>

ToLowerChar(c) ==
  IF \E j \in 1..Len(UpperCase) : UpperCase[j] = c
  THEN LowerCase[CHOOSE j \in 1..Len(UpperCase) : UpperCase[j] = c]
  ELSE c

toLowerCase(str) == [j \in 1..Len(str) |-> ToLowerChar(str[j])]

\* String.prototype.includes: kw occurs as a contiguous substring of t.
includes(t, kw) ==
  \E j \in 0..(Len(t) - Len(kw)) : SubSeq(t, j + 1, j + Len(kw)) = kw

\* The if-chain of mapTypeToIcon (lines 75-84), in source order.
IconRules == <<
    [icon |-> "resistor",
     keywords |-> {<<"r", "e", "s", "i", "s", "t", "o", "r">>}],
    [icon |-> "capacitor",
     keywords |-> {<<"c", "a", "p">>}],
    [icon |-> "inductor",
     keywords |-> {<<"i", "n", "d", "u", "c", "t">>,
                   <<"c", "o", "i", "l">>}],
    [icon |-> "diode",
     keywords |-> {<<"d", "i", "o", "d", "e">>,
                   <<"l", "e", "d">>,
                   <<"r", "e", "c", "t", "i", "f", "i", "e", "r">>}],
    [icon |-> "transistor",
     keywords |-> {<<"t", "r", "a", "n", "s", "i", "s", "t", "o", "r">>,
                   <<"f", "e", "t">>,
                   <<"b", "j", "t">>,
                   <<"i", "g", "b", "t">>}],
    [icon |-> "chip",
     keywords |-> {<<"i", "c">>,
                   <<"c", "h", "i", "p">>,
                   <<"p", "r", "o", "c", "e", "s", "s", "o", "r">>,
                   <<"c", "o", "n", "t", "r", "o", "l", "l", "e", "r">>,
                   <<"o", "p", "-", "a", "m", "p">>,
                   <<"o", "p", "a", "m", "p">>}],
    [icon |-> "switch",
     keywords |-> {<<"s", "w", "i", "t", "c", "h">>,
                   <<"b", "u", "t", "t", "o", "n">>,
                   <<"r", "e", "l", "a", "y">>}],
    [icon |-> "connector",
     keywords |-> {<<"c", "o", "n", "n">>,
                   <<"h", "e", "a", "d">>,
                   <<"j", "a", "c", "k">>,
                   <<"p", "l", "u", "g">>,
                   <<"s", "o", "c", "k", "e", "t">>}],
    [icon |-> "ground",
     keywords |-> {<<"g", "n", "d">>,
                   <<"g", "r", "o", "u", "n", "d">>}],
    [icon |-> "power",
     keywords |-> {<<"v", "o", "l", "t">>,
                   <<"s", "o", "u", "r", "c">>,
                   <<"b", "a", "t", "t">>,
                   <<"c", "e", "l", "l">>,
                   <<"p", "w", "r">>,
                   <<"v", "c", "c">>}] >>

RECURSIVE FirstRule(_, _)
FirstRule(t, n) ==
  IF n > Len(IconRules) THEN "generic"
  ELSE IF \E kw \in IconRules[n].keywords : includes(t, kw)
       THEN IconRules[n].icon
       ELSE FirstRule(t, n + 1)

\* Variant of mapTypeToIcon that compares the type as written.
mapTypeToIconCaseSensitive(type) == FirstRule(type, 1)

mapTypeToIcon(type) == FirstRule(toLowerCase(type), 1)

\* images[pageIdx] of a JavaScript array: undefined outside 0..length-1.
NoImage == 0

\* Variant of ImageAt that reads the image one position further on.
ImageAtNext(images, pageIdx) ==
  IF pageIdx + 2 \in DOMAIN images THEN images[pageIdx + 2] ELSE NoImage

\* images[pageIdx]: undefined outside the array.
ImageAt(images, pageIdx) ==
  IF pageIdx + 1 \in DOMAIN images THEN images[pageIdx + 1] ELSE NoImage

\* The properties of analysisSchema (lines 7-71).
AllFields ==
  {"title", "overview", "components", "functionalBlocks",
   "connectivityLogic", "netlist", "potentialIssues"}

\* Free-text component types the backend may report.
ComponentTypes ==
  { <<"O", "p", "-", "A", "m", "p">>,
    <<"1", "0", "k", " ", "R", "e", "s", "i", "s", "t", "o", "r">>,
    <<"W", "i", "d", "g", "e", "t">>,
    <<"L", "E", "D", " ", "I", "C">> }

\* A response object that carries every property of the schema, for a
\* circuit of one component of the given type.
ResponseFor(type) ==
  [title |-> "T",
   overview |-> "O",
   components |-> << [designator |-> "U1", type |-> type, value |-> "V",
                       notes |-> "N", boundingBox |-> <<0, 0, 1, 1>>] >>,
   functionalBlocks |-> << [name |-> "B", description |-> "D",
                            componentsInvolved |-> <<"U1">>] >>,
   connectivityLogic |-> "L",
   netlist |-> << [id |-> "N1", connectedPins |-> <<"U1-1">>] >>,
   potentialIssues |-> <<"I">>]

FullResponse == ResponseFor(<<"O", "p", "-", "A", "m", "p">>)

Restrict(f, S) == [x \in S |-> f[x]]

NoObject == Restrict(FullResponse, {})

\* Every parsed object built from the properties of the schema.
AllResponseObjects ==
  {Restrict(ResponseFor(type), S) : type \in ComponentTypes, S \in SUBSET AllFields}

\* What the generateContent call of analyzeSchematicImage can yield: a thrown
\* request, an empty text, a text that is no JSON, or a parsed object.
ResponsesWith(objects) ==
  [kind : {"throw"}, message : {"Network error"}, obj : {NoObject}]
    \cup [kind : {"emptytext", "unparsable"}, message : {""}, obj : {NoObject}]
    \cup [kind : {"json"}, message : {""}, obj : objects]

\* The responses met inside full pipeline runs: the complete object and the
\* object without its components list.
ExtractResponses ==
  ResponsesWith({FullResponse, Restrict(FullResponse, AllFields \ {"components"})})

\* The responses met when the extraction step is examined on its own.
AllExtractResponses == ResponsesWith(AllResponseObjects)

\* No response: the generateContent call of analyzeSchematicImage was not
\* reached or has not settled.
NoResponse == [kind |-> "none", message |-> "", obj |-> NoObject]

Rejected(msg) == [ok |-> FALSE, message |-> msg, analysis |-> NoObject]
Resolved(a) == [ok |-> TRUE, message |-> "", analysis |-> a]

\* { ...c, icon: mapTypeToIcon(c.type) }
WithIcon(c) ==
  [f \in DOMAIN c \cup {"icon"} |->
     IF f = "icon" THEN mapTypeToIcon(c.type) ELSE c[f]]

\* Variant of PostProcess that leaves a missing netlist missing.
PostProcessNoBackfill(obj) ==
  LET mapped == [j \in 1..Len(obj.components) |-> WithIcon(obj.components[j])]
  IN [f \in DOMAIN obj |-> IF f = "components" THEN mapped ELSE obj[f]]

\* Lines 190-201: the parsed object with icons mapped and netlist backfilled.
PostProcess(obj) ==
  LET mapped == [j \in 1..Len(obj.components) |-> WithIcon(obj.components[j])]
  IN [f \in DOMAIN obj \cup {"netlist"} |->
        IF f = "components" THEN mapped
        ELSE IF f \in DOMAIN obj THEN obj[f]
        ELSE <<>>]

\* analyzeSchematicImage (lines 152-209): the promise's outcome for an image
\* and a backend response.  Every throw inside the try block is rethrown.
analyzeSchematicImage(base64Image, resp) ==
  IF base64Image = NoImage
    THEN Rejected("Cannot read properties of undefined (reading 'split')")
  ELSE IF resp.kind = "throw" THEN Rejected(resp.message)
  ELSE IF resp.kind = "emptytext" THEN Rejected("No response text generated")
  ELSE IF resp.kind = "unparsable" THEN Rejected("Unexpected token in JSON")
  ELSE IF "components" \notin DOMAIN resp.obj
    THEN Rejected("Cannot read properties of undefined (reading 'map')")
  ELSE IF \E j \in 1..Len(resp.obj.components) :
            "type" \notin DOMAIN resp.obj.components[j]
    THEN Rejected("Cannot read properties of undefined (reading 'toLowerCase')")
  ELSE Resolved(PostProcess(resp.obj))

\* ------------------------------------------------------------------ state
VARIABLES
  status,             \* AnalysisStatus (App.tsx line 13)
  loadingMessage,     \* progress message, a tuple of its parts (line 14)
  error,              \* error message or NULL (line 15)
  currentProjectName, \* sequence of characters (line 18)
  currentProjectId,   \* project id or NoId (line 19)
  pages,              \* sequence of PageResult (line 20)
  activePageIndex,    \* line 21
  selectedComponent,  \* designator or NULL (line 22)
  run,                \* per run: the locals of handleFileSelected and of
                      \* the detectSchematicPages call it awaits
  db,                 \* the projects object store, keyed by id
  saves,              \* saveProject calls in flight, oldest first
  nextId,             \* next id crypto.randomUUID returns
  downloads,          \* the files handed to the browser for download
  capacity,           \* what the environment provides: how many ids and how
                      \* many saveProject calls in flight; never changes
  clock               \* next value Date.now() returns

vars ==
  <<status, loadingMessage, error, currentProjectName, currentProjectId,
    pages, activePageIndex, selectedComponent, run, db, saves, nextId,
    downloads, capacity, clock>>

appVars ==
  <<status, loadingMessage, error, currentProjectName, currentProjectId,
    pages, activePageIndex, selectedComponent>>

storeVars == <<db, saves, nextId, capacity>>

\* useState<string | null>(null) of currentProjectId.
NoId == 0

\* The name given to a project whose currentProjectName is empty
\* (`Untitled Schematic ${time}`).
Untitled == <<"Untitled Schematic">>

MsgReadingPdf == <<"Reading PDF Manual...">>
MsgScanning == <<"Scanning for schematics...">>
MsgAnalyzingPage(pageIdx, i, n) == <<"Analyzing Page", pageIdx + 1, i + 1, n>>

ErrNoSchematics == "No schematics or wiring diagrams detected in this file."
ErrDefault == "Failed to process file."
ErrPdf == "Invalid PDF structure"

\* A run slot no closure of handleFileSelected occupies.  requests, received
\* and calls record the backend traffic of the run: the offsets of the
\* classification batches requested, the responses they got, and the page
\* indices analyzeSchematicImage was called for.  response is what the last
\* analyzeSchematicImage call of the run got from the backend, batches the
\* image batches sent for classification, numPages the page count of the
\* document the run rasterized (0 when it read an image file), skipped the
\* pages of it whose canvas gave no 2d context.
NoRun ==
  [pc |-> "none", images |-> <<>>, batch_i |-> 0,
   validIndices |-> <<>>, requests |-> <<>>, received |-> <<>>,
   schematicIndices |-> <<>>, page_i |-> 0, results |-> <<>>, calls |-> <<>>,
   outcome |-> "none", response |-> NoResponse, batches |-> <<>>,
   numPages |-> 0, skipped |-> {}]

\* A run whose closure has returned; its locals are gone.
Finished(outcome) == [NoRun EXCEPT !.pc = "done", !.outcome = outcome]

Init ==
  /\ status = "idle"
  /\ loadingMessage = <<>>
  /\ error = NULL
  /\ currentProjectName = <<>>
  /\ currentProjectId = NoId
  /\ pages = <<>>
  /\ activePageIndex = 0
  /\ selectedComponent = NULL
  /\ run = [r \in Runs |-> NoRun]
  /\ db = [id \in {} |-> NoObject]
  /\ saves = <<>>
  /\ nextId = 1
  /\ downloads = <<>>
  /\ capacity = [ids |-> MaxIds, pending |-> MaxPending]
  /\ clock = 0

\* ------------------------------------------------------------ result store
\* db.put(STORE_NAME, project): an upsert under project.id.
Put(store, project) ==
  [id \in DOMAIN store \cup {project.id} |->
     IF id = project.id THEN project ELSE store[id]]

\* db.delete(STORE_NAME, id).
Delete(store, id) == [i \in DOMAIN store \ {id} |-> store[i]]

\* The records of the by-date index from its n-th place on: ascending
\* timestamp, records of equal timestamp by ascending primary key.
RECURSIVE ByDate(_, _)
ByDate(store, ids) ==
  IF ids = {} THEN <<>>
  ELSE LET first == CHOOSE i \in ids :
                      \A j \in ids :
                        \/ store[i].timestamp < store[j].timestamp
                        \/ store[i].timestamp = store[j].timestamp /\ i <= j
       IN <<store[first]>> \o ByDate(store, ids \ {first})

\* getAllProjects (storageService lines 31-34): db.getAllFromIndex(STORE_NAME,
\* 'by-date').
getAllProjects(store) == ByDate(store, DOMAIN store)

\* The saveToLibrary effect (lines 28-66), run after a render that changed
\* one of its dependencies, for the state st, pgs, id, name of that render.
\* It leaves the store untouched and starts at most one saveProject call.
\* Every use goes with UNCHANGED <<db, capacity>>.
SaveToLibrary(queue, st, pgs, id, name) ==
  IF st = "complete" /\ Len(pgs) > 0
  THEN IF id = NoId
       THEN /\ nextId <= capacity.ids
            /\ Len(queue) < capacity.pending
            /\ saves' = Append(queue,
                 [project |-> [id |-> nextId,
                               name |-> IF name = <<>> THEN Untitled ELSE name,
                               timestamp |-> clock,
                               pages |-> pgs],
                  first |-> TRUE])
            /\ nextId' = nextId + 1
       ELSE /\ Len(queue) < capacity.pending
            /\ saves' = Append(queue,
                 [project |-> [id |-> id, name |-> name,
                               timestamp |-> clock, pages |-> pgs],
                  first |-> FALSE])
            /\ UNCHANGED nextId
  ELSE saves' = queue /\ UNCHANGED nextId

\* ------------------------------------------------------------ orchestrator
\* The catch clause of handleFileSelected (lines 126-130), entered after the
\* backend response resp when the extractor threw, with NoResponse otherwise.
CatchAfter(r, message, outcome, resp) ==
  /\ error' = OrElse(message, ErrDefault)
  /\ status' = "error"
  /\ run' = [run EXCEPT ![r] = [Finished(outcome) EXCEPT !.response = resp]]
  /\ UNCHANGED <<loadingMessage, currentProjectName, currentProjectId, pages,
                 activePageIndex, selectedComponent, storeVars, downloads, clock>>

Catch(r, message, outcome) == CatchAfter(r, message, outcome, NoResponse)

\* Variant of detectSchematicPages without the single-image fast path.
detectWithoutFastPath(images) ==
  IF 0 < Len(images)
  THEN [NoRun EXCEPT !.pc = "batch", !.images = images, !.requests = <<0>>,
                     !.batches = <<slice(images, 0, BATCH_SIZE)>>]
  ELSE [NoRun EXCEPT !.pc = "classified", !.images = images]

\* Variant of detectSchematicPages that requests its first two batches at
\* once.
detectEager(images) ==
  IF Len(images) = 1
  THEN [NoRun EXCEPT !.pc = "classified", !.images = images,
                     !.schematicIndices = <<0>>]
  ELSE IF BATCH_SIZE < Len(images)
  THEN [NoRun EXCEPT !.pc = "batch", !.images = images,
                     !.requests = <<0, BATCH_SIZE>>,
                     !.batches = <<slice(images, 0, BATCH_SIZE),
                                   slice(images, BATCH_SIZE, 2 * BATCH_SIZE)>>]
  ELSE IF 0 < Len(images)
  THEN [NoRun EXCEPT !.pc = "batch", !.images = images, !.requests = <<0>>,
                     !.batches = <<slice(images, 0, BATCH_SIZE)>>]
  ELSE [NoRun EXCEPT !.pc = "classified", !.images = images]

\* The synchronous start of detectSchematicPages (lines 92-135): the fast
\* path for one image, an empty loop for no image, or the request of the
\* first batch.
detectSchematicPages(images) ==
  IF Len(images) = 1
  THEN [NoRun EXCEPT !.pc = "classified", !.images = images,
                     !.schematicIndices = <<0>>]
  ELSE IF 0 < Len(images)
  THEN [NoRun EXCEPT !.pc = "batch", !.images = images, !.requests = <<0>>,
                     !.batches = <<slice(images, 0, BATCH_SIZE)>>]
  ELSE [NoRun EXCEPT !.pc = "classified", !.images = images]

\* Lines 91-95: the images are at hand and detectSchematicPages is called.
\* numPages is the page count of the document the images come from.
StartFilteringFrom(r, images, numPages, noContext) ==
  /\ status' = "filtering"
  /\ loadingMessage' = MsgScanning
  /\ run' = [run EXCEPT ![r] =
               [detectSchematicPages(images) EXCEPT !.numPages = numPages,
                                                    !.skipped = noContext]]
  /\ UNCHANGED <<error, currentProjectName, currentProjectId, pages,
                 activePageIndex, selectedComponent, storeVars, downloads, clock>>

StartFilteringOf(r, images, numPages) ==
  StartFilteringFrom(r, images, numPages, {})

StartFiltering(r, images) == StartFilteringOf(r, images, 0)

\* handleFileSelected up to its first await (lines 68-87); reset() is inlined.
\* The upload zone is rendered only while status is idle.
handleFileSelected(r, file) ==
  /\ status = "idle"
  /\ run[r].pc \in {"none", "done"}
  /\ pages' = <<>>
  /\ activePageIndex' = 0
  /\ currentProjectId' = NoId
  /\ error' = NULL
  /\ selectedComponent' = NULL
  /\ currentProjectName' = StripExtension(file.name)
  /\ IF file.type = "application/pdf"
     THEN /\ status' = "rendering_pdf"
          /\ loadingMessage' = MsgReadingPdf
          /\ run' = [run EXCEPT ![r] = [NoRun EXCEPT !.pc = "rendering"]]
     ELSE /\ status' = "idle"
          /\ loadingMessage' = <<>>
          /\ run' = [run EXCEPT ![r] = [NoRun EXCEPT !.pc = "reading"]]
  /\ UNCHANGED <<storeVars, downloads, clock>>

\* convertPdfToImages resolves for a document of numPages pages (line 80).
RasterizeDone(r, numPages) ==
  /\ run[r].pc = "rendering"
  /\ StartFilteringOf(r, convertPdfToImages(numPages), numPages)

\* The same when the canvases of the pages noContext give no 2d context.
RasterizeDoneSkipping(r, numPages, noContext) ==
  /\ run[r].pc = "rendering"
  /\ StartFilteringFrom(r, renderPages(numPages, noContext), numPages,
                        noContext \cap (1..Min(numPages, PAGE_CAP)))

\* convertPdfToImages rejects: the document cannot be read or decoded.
RasterizeFail(r) ==
  /\ run[r].pc = "rendering"
  /\ Catch(r, ErrPdf, "render_failed")

\* The FileReader fails (its error event fires).  The promise of lines 84-87
\* has no reject path and no onerror handler, so it never settles and the
\* closure never resumes.
ReadFail(r) ==
  /\ run[r].pc = "reading"
  /\ run' = [run EXCEPT ![r].pc = "hung"]
  /\ UNCHANGED <<appVars, storeVars, downloads, clock>>

\* Variant of ReadDone that hands the image over twice.
ReadDoneTwice(r) ==
  /\ run[r].pc = "reading"
  /\ StartFiltering(r, <<1, 1>>)

\* The FileReader delivers the data URL of a single image (lines 83-88).
ReadDone(r) ==
  /\ run[r].pc = "reading"
  /\ StartFiltering(r, <<1>>)

\* One generateContent call of detectSchematicPages settles (lines 122-147):
\* the batch's indices are appended, then the next batch is requested or the
\* accumulated list is returned (line 149).
BatchResponse(r, resp) ==
  /\ run[r].pc = "batch"
  /\ LET i == run[r].batch_i
         validIndices == run[r].validIndices \o BatchIndices(resp, i)
         next == i + BATCH_SIZE
     IN run' = [run EXCEPT
          ![r].validIndices = validIndices,
          ![r].received = Append(@, resp),
          ![r].batch_i = next,
          ![r].requests = IF next < Len(run[r].images) THEN Append(@, next) ELSE @,
          ![r].batches = IF next < Len(run[r].images)
                         THEN Append(@, slice(run[r].images, next, next + BATCH_SIZE))
                         ELSE @,
          ![r].pc = IF next < Len(run[r].images) THEN "batch" ELSE "classified",
          ![r].schematicIndices =
             IF next < Len(run[r].images) THEN <<>> ELSE validIndices]
  /\ UNCHANGED <<appVars, storeVars, downloads, clock>>

\* detectSchematicPages has returned; lines 97-112 up to the first
\* analyzeSchematicImage call.  The message of line 102 is replaced by the
\* one of line 109 before the closure yields.
ClassifyReturn(r) ==
  /\ run[r].pc = "classified"
  /\ LET schematicIndices == run[r].schematicIndices
     IN IF Len(schematicIndices) = 0
        THEN Catch(r, ErrNoSchematics, "no_schematics")
        ELSE /\ status' = "analyzing"
             /\ loadingMessage' =
                  MsgAnalyzingPage(schematicIndices[1], 0, Len(schematicIndices))
             /\ run' = [run EXCEPT ![r].pc = "extract", ![r].page_i = 0,
                                   ![r].results = <<>>,
                                   ![r].calls = <<schematicIndices[1]>>]
             /\ UNCHANGED <<error, currentProjectName, currentProjectId, pages,
                            activePageIndex, selectedComponent, storeVars, downloads, clock>>

\* Variant of PageResult that numbers pages from 0.
PageResultZeroBased(id, pageIdx, imageData, analysis) ==
  [id |-> id, pageNumber |-> pageIdx, image |-> imageData, analysis |-> analysis]

\* The PageResult pushed for a classified page (lines 114-119).  The random
\* id of line 115 is rendered by a token that differs between the pages of
\* one run.
PageResult(id, pageIdx, imageData, analysis) ==
  [id |-> id, pageNumber |-> pageIdx + 1, image |-> imageData,
   analysis |-> analysis]

\* The analyzeSchematicImage call of iteration page_i settles (lines 112-124).
ExtractDone(r, resp) ==
  /\ run[r].pc = "extract"
  /\ LET schematicIndices == run[r].schematicIndices
         i == run[r].page_i
         pageIdx == schematicIndices[i + 1]
         imageData == ImageAt(run[r].images, pageIdx)
         out == analyzeSchematicImage(imageData, resp)
         results == Append(run[r].results,
                           PageResult(<<"page", i + 1>>, pageIdx, imageData,
                                      out.analysis))
     IN IF ~out.ok
        THEN CatchAfter(r, out.message, "extract_failed", resp)
        ELSE IF i + 1 < Len(schematicIndices)
        THEN /\ loadingMessage' =
                  MsgAnalyzingPage(schematicIndices[i + 2], i + 1,
                                   Len(schematicIndices))
             /\ run' = [run EXCEPT ![r].page_i = i + 1, ![r].results = results,
                                   ![r].calls = Append(@, schematicIndices[i + 2]),
                                   ![r].response = resp]
             /\ UNCHANGED <<status, error, currentProjectName, currentProjectId,
                            pages, activePageIndex, selectedComponent, storeVars, downloads, clock>>
        ELSE /\ pages' = results
             /\ activePageIndex' = 0
             /\ status' = "complete"
             /\ run' = [run EXCEPT ![r] = [Finished("complete") EXCEPT
                                              !.response = resp]]
             /\ SaveToLibrary(saves, "complete", results, currentProjectId,
                              currentProjectName)
             /\ UNCHANGED <<db, capacity, downloads, clock, loadingMessage, error, currentProjectName,
                            currentProjectId, selectedComponent>>

\* The null arguments of setAnalysisUpdate: no page index is negative and no
\* analysis is without fields.
NullIndex == 0 - 1
NullAnalysis == NoObject

\* Variant of AnalysisUpdate that writes the analysis to the first page.
AnalysisUpdateFirst(prev, pageIndex, updatedAnalysis) ==
  IF pageIndex = NullIndex \/ updatedAnalysis = NullAnalysis
  THEN prev
  ELSE [prev EXCEPT ![1].analysis = updatedAnalysis]

\* The page list setAnalysisUpdate (lines 152-159) leaves when the page list
\* was prev: prev itself after the early return of line 153, else a copy
\* whose entry pageIndex has the new analysis.
AnalysisUpdate(prev, pageIndex, updatedAnalysis) ==
  IF pageIndex = NullIndex \/ updatedAnalysis = NullAnalysis
  THEN prev
  ELSE [prev EXCEPT ![pageIndex + 1].analysis = updatedAnalysis]

\* Variant of reset that leaves status as it is.
resetKeepStatus ==
  /\ pages' = AnalysisUpdate(<<>>, NullIndex, NullAnalysis)
  /\ activePageIndex' = 0
  /\ loadingMessage' = <<>>
  /\ currentProjectId' = NoId
  /\ currentProjectName' = <<>>
  /\ UNCHANGED <<status, error, selectedComponent, run, storeVars, downloads,
                 clock>>

\* reset (lines 142-150), bound to the header logo and to the buttons of the
\* complete and error views; its last statement is setAnalysisUpdate(null,
\* null).
reset ==
  /\ pages' = AnalysisUpdate(<<>>, NullIndex, NullAnalysis)
  /\ activePageIndex' = 0
  /\ status' = "idle"
  /\ loadingMessage' = <<>>
  /\ currentProjectId' = NoId
  /\ currentProjectName' = <<>>
  /\ UNCHANGED <<error, selectedComponent, run, storeVars, downloads, clock>>

\* Variant of handleLoadProject that leaves the active page index as it is.
handleLoadProjectKeepIndex(id) ==
  /\ id \in DOMAIN db
  /\ pages' = db[id].pages
  /\ currentProjectId' = db[id].id
  /\ currentProjectName' = db[id].name
  /\ status' = "complete"
  /\ SaveToLibrary(saves, "complete", db[id].pages, db[id].id, db[id].name)
  /\ UNCHANGED <<db, capacity, downloads, clock, loadingMessage, error,
                 selectedComponent, run, activePageIndex>>

\* handleLoadProject (lines 133-140) for a project listed by the library
\* sidebar, followed by the saveToLibrary effect of the new render.
handleLoadProject(id) ==
  /\ id \in DOMAIN db
  /\ pages' = db[id].pages
  /\ currentProjectId' = db[id].id
  /\ currentProjectName' = db[id].name
  /\ activePageIndex' = 0
  /\ status' = "complete"
  /\ SaveToLibrary(saves, "complete", db[id].pages, db[id].id, db[id].name)
  /\ UNCHANGED <<db, capacity, downloads, clock, loadingMessage, error, selectedComponent, run>>

\* The page the views show (line 192): undefined when the index is outside
\* the page list.
HasActivePage == activePageIndex + 1 \in DOMAIN pages

activePage == pages[activePageIndex + 1]

\* The designators the viewer, the component list and the block chips of the
\* active page offer for selection.
Selectable ==
  {activePage.analysis.components[j].designator :
     j \in DOMAIN activePage.analysis.components}
    \cup UNION {Range(activePage.analysis.functionalBlocks[j].componentsInvolved) :
                 j \in DOMAIN activePage.analysis.functionalBlocks}

\* handleSelectComponent (lines 161-167): selecting the selected designator
\* again clears the selection.  The views that call it are rendered only for
\* the active page of a complete project.
handleSelectComponent(designator) ==
  /\ status = "complete"
  /\ HasActivePage
  /\ designator \in Selectable
  /\ selectedComponent' = IF designator = selectedComponent THEN NULL ELSE designator
  /\ UNCHANGED <<status, loadingMessage, error, currentProjectName,
                 currentProjectId, pages, activePageIndex, run, storeVars, downloads, clock>>

\* setAnalysisUpdate (lines 152-159) with both arguments given, followed by
\* the saveToLibrary effect of the render the new page list causes.
setAnalysisUpdate(pageIndex, updatedAnalysis) ==
  LET newPages == AnalysisUpdate(pages, pageIndex, updatedAnalysis)
  IN /\ pages' = newPages
     /\ SaveToLibrary(saves, status, newPages, currentProjectId,
                      currentProjectName)
     /\ UNCHANGED <<db, capacity, downloads, clock, status, loadingMessage, error,
                    currentProjectName, currentProjectId, activePageIndex,
                    selectedComponent, run>>

\* handleFieldChange of the analysis view (AnalysisResult lines 40-42), which
\* is rendered for the active page of a complete project (App.tsx 358-362):
\* onUpdate({ ...data, [field]: value }).
handleFieldChange(field, value) ==
  /\ status = "complete"
  /\ HasActivePage
  /\ LET data == activePage.analysis
     IN setAnalysisUpdate(activePageIndex,
          [f \in DOMAIN data \cup {field} |-> IF f = field THEN value ELSE data[f]])

\* The page navigation of the header (App.tsx lines 230-249), rendered for a
\* complete project of more than one page; a button is disabled at its end
\* of the list.
previousPage ==
  /\ status = "complete"
  /\ Len(pages) > 1
  /\ activePageIndex # 0
  /\ activePageIndex' = IF 0 > activePageIndex - 1 THEN 0 ELSE activePageIndex - 1
  /\ UNCHANGED <<status, loadingMessage, error, currentProjectName,
                 currentProjectId, pages, selectedComponent, run, storeVars,
                 downloads, clock>>

nextPage ==
  /\ status = "complete"
  /\ Len(pages) > 1
  /\ activePageIndex # Len(pages) - 1
  /\ activePageIndex' = Min(Len(pages) - 1, activePageIndex + 1)
  /\ UNCHANGED <<status, loadingMessage, error, currentProjectName,
                 currentProjectId, pages, selectedComponent, run, storeVars,
                 downloads, clock>>

\* The component list of the analysis view (AnalysisResult line 252), shown
\* for the active page when its analysis has a components list
\* (ComponentList line 59).
HasComponents ==
  /\ status = "complete"
  /\ HasActivePage
  /\ "components" \in DOMAIN activePage.analysis

\* { ...c, [field]: value }
WithField(c, field, value) ==
  [f \in DOMAIN c \cup {field} |-> IF f = field THEN value ELSE c[f]]

\* Variant of handleChange that sets the field on every component.
handleChangeAll(index, field, value) ==
  /\ HasComponents
  /\ index + 1 \in DOMAIN activePage.analysis.components
  /\ LET components == activePage.analysis.components
         newComponents == [j \in DOMAIN components |->
                             WithField(components[j], field, value)]
     IN handleFieldChange("components", newComponents)

\* handleChange of the component list (ComponentList lines 61-66) for the
\* row at index.
handleChange(index, field, value) ==
  /\ HasComponents
  /\ index + 1 \in DOMAIN activePage.analysis.components
  /\ LET components == activePage.analysis.components
         newComponents == [components EXCEPT
                             ![index + 1] = WithField(@, field, value)]
     IN handleFieldChange("components", newComponents)

\* handleDelete of the component list (ComponentList lines 68-72):
\* components.filter((_, i) => i !== index).
deleteComponent(index) ==
  /\ HasComponents
  /\ index + 1 \in DOMAIN activePage.analysis.components
  /\ LET components == activePage.analysis.components
         newComponents == [j \in 1..(Len(components) - 1) |->
                             IF j < index + 1 THEN components[j]
                             ELSE components[j + 1]]
     IN handleFieldChange("components", newComponents)

\* The decimal digits of a positive number below 10, as `C${n}` needs them.
Digits == <<"1", "2", "3", "4", "5", "6", "7", "8", "9">>

\* handleAdd of the component list (lines 74-84).
handleAdd ==
  /\ HasComponents
  /\ Len(activePage.analysis.components) < MaxComponents
  /\ LET components == activePage.analysis.components
         newComponent ==
           [designator |-> "C" \o Digits[Len(components) + 1],
            type |-> <<"U", "n", "k", "n", "o", "w", "n">>,
            value |-> "?", notes |-> "", icon |-> "generic"]
     IN handleFieldChange("components", Append(components, newComponent))

\* String.prototype.replace(/\s+/g, '-'): every maximal run of whitespace
\* becomes one hyphen.
RECURSIVE HyphenateFrom(_, _)
HyphenateFrom(str, j) ==
  IF j > Len(str) THEN <<>>
  ELSE IF str[j] # " " THEN <<str[j]>> \o HyphenateFrom(str, j + 1)
  ELSE IF j > 1 /\ str[j - 1] = " " THEN HyphenateFrom(str, j + 1)
  ELSE <<"-">> \o HyphenateFrom(str, j + 1)

Hyphenate(str) == HyphenateFrom(str, 1)

\* Variant of exportData that exports the page images too.
exportDataWithImages(name, pgs, now) ==
  [metadata |-> [exportedAt |-> now, tool |-> "CircuitMind", projectName |-> name],
   pages |-> [k \in 1..Len(pgs) |->
                [pageNumber |-> pgs[k].pageNumber, image |-> pgs[k].image,
                 analysis |-> pgs[k].analysis]]]

\* The document handleExport serializes (lines 170-180).
exportData(name, pgs, now) ==
  [metadata |-> [exportedAt |-> now, tool |-> "CircuitMind", projectName |-> name],
   pages |-> [k \in 1..Len(pgs) |->
                [pageNumber |-> pgs[k].pageNumber, analysis |-> pgs[k].analysis]]]

\* handleExport (lines 169-190), bound to the Export JSON button of a
\* complete project: the document is offered for download under a file name
\* derived from the project name.
handleExport ==
  /\ status = "complete"
  /\ Len(downloads) < MaxExports
  /\ downloads' = Append(downloads,
       [download |-> toLowerCase(Hyphenate(currentProjectName)) \o <<"-analysis.json">>,
        content |-> exportData(currentProjectName, pages, clock)])
  /\ UNCHANGED <<appVars, run, storeVars, clock>>

\* handleDelete of the library sidebar (LibrarySidebar lines 41-47) for a
\* listed project, once the user has confirmed: deleteProject, then the list
\* is fetched again.  The orchestrator state is not touched.
handleDelete(id) ==
  /\ id \in DOMAIN db
  /\ db' = Delete(db, id)
  /\ UNCHANGED <<appVars, run, saves, nextId, capacity, downloads, clock>>

\* The oldest saveProject call resolves (storageService lines 26-29).  After
\* a first save lines 47-48 set the project id and name, and the effect runs
\* again for the render they cause.
SaveResolved ==
  /\ saves # <<>>
  /\ LET s == Head(saves)
     IN /\ db' = Put(db, s.project)
        /\ IF s.first
           THEN /\ currentProjectId' = s.project.id
                /\ currentProjectName' = s.project.name
                /\ SaveToLibrary(Tail(saves), status, pages, s.project.id,
                                 s.project.name)
           ELSE /\ saves' = Tail(saves)
                /\ UNCHANGED <<currentProjectId, currentProjectName, nextId>>
  /\ UNCHANGED <<status, loadingMessage, error, pages, activePageIndex,
                 selectedComponent, run, capacity, downloads, clock>>

\* The oldest saveProject call rejects: the failure is only logged.
\* Variant of SaveFailed that reports the failure as a failure of the run.
SaveFailedFatal ==
  /\ saves # <<>>
  /\ saves' = Tail(saves)
  /\ status' = "error"
  /\ error' = ErrDefault
  /\ UNCHANGED <<loadingMessage, currentProjectName, currentProjectId, pages,
                 activePageIndex, selectedComponent, run, db, nextId, capacity,
                 downloads, clock>>

SaveFailed ==
  /\ saves # <<>>
  /\ saves' = Tail(saves)
  /\ UNCHANGED <<appVars, run, db, nextId, capacity, downloads, clock>>

\* Time passes: Date.now() returns a larger value from now on.
Tick ==
  /\ clock < MaxClock
  /\ clock' = clock + 1
  /\ UNCHANGED <<appVars, run, storeVars, downloads>>

Next ==
  \/ \E r \in Runs, file \in Files : handleFileSelected(r, file)
  \/ \E r \in Runs, numPages \in 0..MaxPdfPages : RasterizeDone(r, numPages)
  \/ \E r \in Runs : RasterizeFail(r)
  \/ \E r \in Runs : ReadDone(r)
  \/ \E r \in Runs, resp \in ClassifyResponses : BatchResponse(r, resp)
  \/ \E r \in Runs : ClassifyReturn(r)
  \/ \E r \in Runs, resp \in ExtractResponses : ExtractDone(r, resp)
  \/ reset
  \/ \E id \in 1..MaxIds : handleLoadProject(id)
  \/ \E designator \in {"U1"} : handleSelectComponent(designator)
  \/ \E value \in {"E"} : handleFieldChange("title", value)
  \/ SaveResolved
  \/ SaveFailed
  \/ Tick

Spec == Init /\ [][Next]_vars

\* ------------------------------------------------------- overlapping runs
\* Image files submitted to MaxOverlap run slots: a slot is free again when
\* its closure has returned.
ImageFiles == {file \in Files : file.type # "application/pdf"}
PdfFiles == {file \in Files : file.type = "application/pdf"}

InitOverlap ==
  /\ status = "idle"
  /\ loadingMessage = <<>>
  /\ error = NULL
  /\ currentProjectName = <<>>
  /\ currentProjectId = NoId
  /\ pages = <<>>
  /\ activePageIndex = 0
  /\ selectedComponent = NULL
  /\ run = [r \in 1..MaxOverlap |-> NoRun]
  /\ db = [id \in {} |-> NoObject]
  /\ saves = <<>>
  /\ nextId = 1
  /\ downloads = <<>>
  /\ capacity = [ids |-> MaxIds, pending |-> MaxPending]
  /\ clock = 0

NextOverlap ==
  \/ \E r \in DOMAIN run, file \in ImageFiles : handleFileSelected(r, file)
  \/ \E r \in DOMAIN run : ReadDone(r)
  \/ \E r \in DOMAIN run : ClassifyReturn(r)
  \/ \E r \in DOMAIN run, resp \in ExtractResponses : ExtractDone(r, resp)
  \/ reset
  \/ SaveResolved
  \/ SaveFailed

SpecOverlap == InitOverlap /\ [][NextOverlap]_vars

\* -------------------------------------------------------------- whole runs
\* The run of one document of up to MaxDocPages pages or of one image.  A
\* classification call throws or names the first image of its batch, once
\* or twice; an extraction call throws or yields the complete object.
PipelineClassifyResponses ==
  {resp \in ClassifyResponses :
     \/ resp.kind = "throw"
     \/ resp.kind = "indices" /\ resp.indices \in {<<0>>, <<0, 0>>}}

PipelineExtractResponses ==
  {resp \in ExtractResponses :
     \/ resp.kind = "throw"
     \/ resp.kind = "json" /\ resp.obj = FullResponse}

InitPipeline ==
  /\ status = "idle"
  /\ loadingMessage = <<>>
  /\ error = NULL
  /\ currentProjectName = <<>>
  /\ currentProjectId = NoId
  /\ pages = <<>>
  /\ activePageIndex = 0
  /\ selectedComponent = NULL
  /\ run = [r \in {1} |-> NoRun]
  /\ db = [id \in {} |-> NoObject]
  /\ saves = <<>>
  /\ nextId = 1
  /\ downloads = <<>>
  /\ capacity = [ids |-> MaxIds, pending |-> MaxPending]
  /\ clock = 0

NextPipeline ==
  \/ \E r \in DOMAIN run, file \in Files : handleFileSelected(r, file)
  \/ \E r \in DOMAIN run, numPages \in 0..MaxDocPages,
         noContext \in SUBSET (1..MaxSkipped) :
       RasterizeDoneSkipping(r, numPages, noContext)
  \/ \E r \in DOMAIN run : RasterizeFail(r)
  \/ \E r \in DOMAIN run : ReadDone(r)
  \/ \E r \in DOMAIN run, resp \in PipelineClassifyResponses :
       BatchResponse(r, resp)
  \/ \E r \in DOMAIN run : ClassifyReturn(r)
  \/ \E r \in DOMAIN run, resp \in PipelineExtractResponses :
       ExtractDone(r, resp)
  \/ SaveResolved
  \/ SaveFailed

SpecPipeline == InitPipeline /\ [][NextPipeline]_vars

\* ------------------------------------------------- whole runs that settle
\* The run of one document when every external operation eventually
\* succeeds or fails: the file read, the rasterization, each classification
\* call and each extraction call, and the continuation of the closure after
\* detectSchematicPages has returned.
NextLive ==
  \/ NextPipeline
  \/ \E r \in DOMAIN run : ReadFail(r)

Fairness ==
  /\ WF_vars(\E r \in DOMAIN run : ReadDone(r) \/ ReadFail(r))
  /\ WF_vars(\E r \in DOMAIN run :
               \/ RasterizeFail(r)
               \/ \E numPages \in 0..MaxDocPages,
                     noContext \in SUBSET (1..MaxSkipped) :
                    RasterizeDoneSkipping(r, numPages, noContext))
  /\ WF_vars(\E r \in DOMAIN run, resp \in PipelineClassifyResponses :
               BatchResponse(r, resp))
  /\ WF_vars(\E r \in DOMAIN run : ClassifyReturn(r))
  /\ WF_vars(\E r \in DOMAIN run, resp \in PipelineExtractResponses :
               ExtractDone(r, resp))

SpecLive == InitPipeline /\ [][NextLive]_vars /\ Fairness

\* ------------------------------------------- page results of a document
\* A document of up to MaxPdfPages pages is analyzed.  Each classification
\* call yields a list of indices, in any order, with repetitions and with
\* indices past the batch; the extraction of a page fails or yields an
\* object that differs with the type of its component.
BindingClassifyResponses ==
  {resp \in ClassifyResponses : resp.kind = "indices"}

BindingExtractResponses ==
  ResponsesWith({ResponseFor(type) : type \in ComponentTypes})

NextBinding ==
  \/ \E r \in DOMAIN run, file \in PdfFiles : handleFileSelected(r, file)
  \/ \E r \in DOMAIN run, numPages \in 0..MaxPdfPages :
       RasterizeDone(r, numPages)
  \/ \E r \in DOMAIN run, resp \in BindingClassifyResponses :
       BatchResponse(r, resp)
  \/ \E r \in DOMAIN run : ClassifyReturn(r)
  \/ \E r \in DOMAIN run, resp \in BindingExtractResponses :
       ExtractDone(r, resp)
  \/ SaveResolved
  \/ SaveFailed

SpecBinding == InitPipeline /\ [][NextBinding]_vars

\* ------------------------------------------------- a project of two pages
\* A document of two pages, both classified as schematics, is analyzed; the
\* user moves between the pages and edits the title of the one shown.
NextPages ==
  \/ \E r \in DOMAIN run, file \in PdfFiles : handleFileSelected(r, file)
  \/ \E r \in DOMAIN run : RasterizeDone(r, 2)
  \/ \E r \in DOMAIN run :
       BatchResponse(r, [kind |-> "indices", indices |-> <<0, 1>>])
  \/ \E r \in DOMAIN run : ClassifyReturn(r)
  \/ \E r \in DOMAIN run, resp \in PipelineExtractResponses :
       ExtractDone(r, resp)
  \/ previousPage
  \/ nextPage
  \/ \E value \in {"E", "F"} : handleFieldChange("title", value)
  \/ reset
  \/ SaveResolved
  \/ SaveFailed

SpecPages == InitPipeline /\ [][NextPages]_vars

\* ------------------------------------------------- the component list
\* An image file is analyzed; the user adds components and types the note M
\* for components.
NextComponents ==
  \/ \E r \in DOMAIN run, file \in ImageFiles : handleFileSelected(r, file)
  \/ \E r \in DOMAIN run : ReadDone(r)
  \/ \E r \in DOMAIN run : ClassifyReturn(r)
  \/ \E r \in DOMAIN run, resp \in ExtractResponses : ExtractDone(r, resp)
  \/ \E index \in 0..(MaxComponents - 1) : handleChange(index, "notes", "M")
  \/ handleAdd
  \/ SaveResolved
  \/ SaveFailed

SpecComponents == InitPipeline /\ [][NextComponents]_vars

\* ------------------------------------------------ the component editor
\* An image file is analyzed; the user retypes the type of components as
\* Widget, adds components and deletes components.
NextEditor ==
  \/ \E r \in DOMAIN run, file \in ImageFiles : handleFileSelected(r, file)
  \/ \E r \in DOMAIN run : ReadDone(r)
  \/ \E r \in DOMAIN run : ClassifyReturn(r)
  \/ \E r \in DOMAIN run, resp \in PipelineExtractResponses :
       ExtractDone(r, resp)
  \/ \E index \in 0..(MaxComponents - 1) :
       handleChange(index, "type", <<"W", "i", "d", "g", "e", "t">>)
  \/ \E index \in 0..(MaxComponents - 1) : deleteComponent(index)
  \/ handleAdd
  \/ SaveResolved
  \/ SaveFailed

SpecEditor == InitPipeline /\ [][NextEditor]_vars

\* ------------------------------------------------------------ the library
\* Image files are analyzed, stored, loaded again and deleted.
InitLibrary ==
  /\ status = "idle"
  /\ loadingMessage = <<>>
  /\ error = NULL
  /\ currentProjectName = <<>>
  /\ currentProjectId = NoId
  /\ pages = <<>>
  /\ activePageIndex = 0
  /\ selectedComponent = NULL
  /\ run = [r \in Runs |-> NoRun]
  /\ db = [id \in {} |-> NoObject]
  /\ saves = <<>>
  /\ nextId = 1
  /\ downloads = <<>>
  /\ capacity = [ids |-> MaxEditIds, pending |-> MaxEditPending]
  /\ clock = 0

NextLibrary ==
  \/ \E r \in DOMAIN run, file \in ImageFiles : handleFileSelected(r, file)
  \/ \E r \in DOMAIN run : ReadDone(r)
  \/ \E r \in DOMAIN run : ClassifyReturn(r)
  \/ \E r \in DOMAIN run, resp \in ExtractResponses : ExtractDone(r, resp)
  \/ reset
  \/ \E id \in DOMAIN db : handleLoadProject(id)
  \/ \E id \in DOMAIN db : handleDelete(id)
  \/ SaveResolved
  \/ SaveFailed
  \/ Tick

SpecLibrary == InitLibrary /\ [][NextLibrary]_vars

\* ------------------------------------------------ moving between pages
\* Documents of two pages are analyzed, of which the classification names
\* the first or both; the user moves between the pages, loads stored
\* projects and resets.
NextNavigation ==
  \/ \E r \in DOMAIN run, file \in PdfFiles : handleFileSelected(r, file)
  \/ \E r \in DOMAIN run : RasterizeDone(r, 2)
  \/ \E r \in DOMAIN run, indices \in {<<0>>, <<0, 1>>} :
       BatchResponse(r, [kind |-> "indices", indices |-> indices])
  \/ \E r \in DOMAIN run : ClassifyReturn(r)
  \/ \E r \in DOMAIN run, resp \in PipelineExtractResponses :
       ExtractDone(r, resp)
  \/ previousPage
  \/ nextPage
  \/ reset
  \/ \E id \in DOMAIN db : handleLoadProject(id)
  \/ SaveResolved
  \/ SaveFailed

SpecNavigation == InitLibrary /\ [][NextNavigation]_vars

\* ------------------------------------------ deleting the active project
\* An image file is analyzed and stored; the user deletes stored projects in
\* the library sidebar and edits the title of the project shown.
NextDelete ==
  \/ \E r \in DOMAIN run, file \in ImageFiles : handleFileSelected(r, file)
  \/ \E r \in DOMAIN run : ReadDone(r)
  \/ \E r \in DOMAIN run : ClassifyReturn(r)
  \/ \E r \in DOMAIN run, resp \in ExtractResponses : ExtractDone(r, resp)
  \/ \E value \in {"E", "F"} : handleFieldChange("title", value)
  \/ \E id \in DOMAIN db : handleDelete(id)
  \/ SaveResolved
  \/ SaveFailed
  \/ Tick

SpecDelete == InitLibrary /\ [][NextDelete]_vars

\* ------------------------------------------- edits of a completed project
\* One image file is submitted and analyzed; its analysis is then edited
\* while the saves of the project resolve or fail.
InitEdit ==
  /\ status = "idle"
  /\ loadingMessage = <<>>
  /\ error = NULL
  /\ currentProjectName = <<>>
  /\ currentProjectId = NoId
  /\ pages = <<>>
  /\ activePageIndex = 0
  /\ selectedComponent = NULL
  /\ run = [r \in Runs |-> NoRun]
  /\ db = [id \in {} |-> NoObject]
  /\ saves = <<>>
  /\ nextId = 1
  /\ downloads = <<>>
  /\ capacity = [ids |-> MaxEditIds, pending |-> MaxEditPending]
  /\ clock = 0

NextEdit ==
  \/ \E r \in DOMAIN run, file \in ImageFiles : handleFileSelected(r, file)
  \/ \E r \in DOMAIN run : ReadDone(r)
  \/ \E r \in DOMAIN run : ClassifyReturn(r)
  \/ \E r \in DOMAIN run, resp \in ExtractResponses : ExtractDone(r, resp)
  \/ \E value \in {"E", "F"} : handleFieldChange("title", value)
  \/ handleExport
  \/ SaveResolved
  \/ SaveFailed
  \/ Tick

SpecEdit == InitEdit /\ [][NextEdit]_vars

\* ------------------------------------------------- the classifier on its own
\* A run about to call detectSchematicPages on an image sequence of any
\* length up to MaxImages.
InitClassify ==
  /\ status = "filtering"
  /\ loadingMessage = MsgScanning
  /\ error = NULL
  /\ currentProjectName = <<"m">>
  /\ currentProjectId = NoId
  /\ pages = <<>>
  /\ activePageIndex = 0
  /\ selectedComponent = NULL
  /\ \E n \in 0..MaxImages :
        run = [r \in Runs |->
                 IF r = 1
                 THEN [NoRun EXCEPT !.pc = "detect", !.images = [p \in 1..n |-> p]]
                 ELSE NoRun]
  /\ db = [id \in {} |-> NoObject]
  /\ saves = <<>>
  /\ nextId = 1
  /\ downloads = <<>>
  /\ capacity = [ids |-> MaxIds, pending |-> MaxPending]
  /\ clock = 0

\* The call of line 95 on the images of run r.
Detect(r) ==
  /\ run[r].pc = "detect"
  /\ run' = [run EXCEPT ![r] = detectSchematicPages(run[r].images)]
  /\ UNCHANGED <<appVars, storeVars, downloads, clock>>

NextClassify ==
  \/ Detect(1)
  \/ \E resp \in ClassifyResponses : BatchResponse(1, resp)

SpecClassify == InitClassify /\ [][NextClassify]_vars

\* -------------------------------------------------- the extractor on its own
\* The run of a single image file at its analyzeSchematicImage call.
InitExtract ==
  /\ status = "analyzing"
  /\ loadingMessage = MsgAnalyzingPage(0, 0, 1)
  /\ error = NULL
  /\ currentProjectName = <<"m">>
  /\ currentProjectId = NoId
  /\ pages = <<>>
  /\ activePageIndex = 0
  /\ selectedComponent = NULL
  /\ run = [r \in Runs |->
              IF r = 1
              THEN [detectSchematicPages(<<1>>) EXCEPT !.pc = "extract",
                                                       !.calls = <<0>>]
              ELSE NoRun]
  /\ db = [id \in {} |-> NoObject]
  /\ saves = <<>>
  /\ nextId = 1
  /\ downloads = <<>>
  /\ capacity = [ids |-> MaxIds, pending |-> MaxPending]
  /\ clock = 0

NextExtract == \E resp \in AllExtractResponses : ExtractDone(1, resp)

SpecExtract == InitExtract /\ [][NextExtract]_vars

\* ================================================================= claims
IsStrictlyIncreasing(s) == \A j \in 1..(Len(s) - 1) : s[j] < s[j + 1]

NumBatches(n) == (n + BATCH_SIZE - 1) \div BATCH_SIZE

Succeeded(resp) == resp.kind = "indices"

\* Number of indices the successful ones among the first k responses carry.
RECURSIVE ReportedBy(_, _)
ReportedBy(received, k) ==
  IF k = 0 THEN 0
  ELSE ReportedBy(received, k - 1)
         + (IF Succeeded(received[k]) THEN Len(received[k].indices) ELSE 0)

Classifying(r) == run[r].pc \in {"batch", "classified"}

\* The list detectSchematicPages has built so far, or has returned.
Accumulated(r) ==
  IF run[r].pc = "classified" THEN run[r].schematicIndices ELSE run[r].validIndices

\* C1: the index list detectSchematicPages returns is sorted ascending and
\* holds no index twice.
C1_ReturnedSortedUnique ==
  \A r \in Runs :
    run[r].pc = "classified" => IsStrictlyIncreasing(run[r].schematicIndices)

\* C2: every index detectSchematicPages returns is smaller than the number of
\* input images.
C2_ReturnedInRange ==
  \A r \in Runs :
    run[r].pc = "classified" =>
      \A j \in 1..Len(run[r].schematicIndices) :
        run[r].schematicIndices[j] < Len(run[r].images)

\* C3: a batch whose request throws or whose response is malformed adds no
\* index; every batch is requested whatever the earlier ones did, in offset
\* order; the call returns after the last batch; and the returned list holds
\* every remapped index of the batches that succeeded.
C3_SkipOnFailure ==
  \A r \in Runs :
    (Classifying(r) /\ Len(run[r].images) # 1) =>
      LET received == run[r].received
          requests == run[r].requests
          n == Len(run[r].images)
      IN /\ Len(Accumulated(r)) = ReportedBy(received, Len(received))
         /\ \A k \in 1..Len(requests) : requests[k] = BATCH_SIZE * (k - 1)
         /\ run[r].pc = "batch" =>
              Len(requests) = Len(received) + 1 /\ Len(requests) <= NumBatches(n)
         /\ run[r].pc = "classified" =>
              /\ Len(received) = NumBatches(n)
              /\ Len(requests) = NumBatches(n)
              /\ \A k \in 1..Len(received) :
                   Succeeded(received[k]) =>
                     \A j \in 1..Len(received[k].indices) :
                       (BATCH_SIZE * (k - 1) + received[k].indices[j])
                         \in Range(run[r].schematicIndices)

\* C3 witness: the first batch failed, the second one succeeded and reported
\* a page, and the call has returned.
C3_Witness ==
  \E r \in Runs :
    /\ run[r].pc = "classified"
    /\ Len(run[r].received) = 2
    /\ ~Succeeded(run[r].received[1])
    /\ Succeeded(run[r].received[2])
    /\ run[r].received[2].indices # <<>>

\* C4: each batch-local index j of a batch that succeeded sits in the
\* accumulated list as (start offset of the batch + j), at the place the
\* batch appended it.
C4_IndexRemapping ==
  \A r \in Runs :
    Classifying(r) =>
      \A k \in 1..Len(run[r].received) :
        Succeeded(run[r].received[k]) =>
          \A j \in 1..Len(run[r].received[k].indices) :
            LET at == ReportedBy(run[r].received, k - 1) + j
            IN /\ at \in DOMAIN Accumulated(r)
               /\ Accumulated(r)[at] =
                    BATCH_SIZE * (k - 1) + run[r].received[k].indices[j]

\* C4 witness: the second batch reported its local position 0 and the call
\* returned global index 5 for it.
C4_Witness ==
  \E r \in Runs :
    /\ run[r].pc = "classified"
    /\ Len(run[r].received) = 2
    /\ run[r].received[1] = [kind |-> "indices", indices |-> <<1>>]
    /\ run[r].received[2] = [kind |-> "indices", indices |-> <<0>>]
    /\ run[r].schematicIndices = <<1, BATCH_SIZE>>

\* C5: for exactly one input image detectSchematicPages returns [0] and sends
\* no classification request.
C5_SingleImageFastPath ==
  \A r \in Runs :
    (Classifying(r) /\ Len(run[r].images) = 1) =>
      /\ run[r].pc = "classified"
      /\ run[r].schematicIndices = <<0>>
      /\ run[r].requests = <<>>
      /\ run[r].received = <<>>

\* C5 witness: the call for a one-image sequence has returned.
C5_Witness ==
  \E r \in Runs : run[r].pc = "classified" /\ Len(run[r].images) = 1

PageNumbers(pgs) == [k \in 1..Len(pgs) |-> pgs[k].pageNumber]

\* The step in which run r returns with the given outcome.
Returns(r, outcome) ==
  run[r].pc # "done" /\ run'[r].pc = "done" /\ run'[r].outcome = outcome

\* C6: while a run extracts the classified list S, the extractor calls made
\* so far are the first elements of S in order, one call more than results
\* obtained, and the k-th result has page number S[k] + 1; when the run
\* completes, one call was made per element of S and the page-result list
\* has the length of S with page numbers S[k] + 1.
C6_ExtractInOrder ==
  [][\A r \in Runs :
       run[r].pc = "extract" =>
         LET S == run[r].schematicIndices
         IN /\ Len(run[r].results) = run[r].page_i
            /\ run[r].calls = SubSeq(S, 1, run[r].page_i + 1)
            /\ \A k \in 1..Len(run[r].results) :
                 run[r].results[k].pageNumber = S[k] + 1
            /\ Returns(r, "complete") =>
                 /\ run[r].calls = S
                 /\ status' = "complete"
                 /\ PageNumbers(pages') = [k \in 1..Len(S) |-> S[k] + 1]]_vars

\* C6 witness: a run has just completed for the classified list <<0, 1>>:
\* two pages, numbered 1 and 2, not yet saved under an id.
C6_Witness ==
  /\ status = "complete"
  /\ \E r \in Runs : run[r].pc = "done" /\ run[r].outcome = "complete"
  /\ PageNumbers(pages) = <<1, 2>>
  /\ currentProjectId = NoId

\* C7: whenever a run has completed, the page numbers of the page-result
\* list are strictly increasing and at least 1.
C7_PageNumbersIncreasing ==
  status = "complete" =>
    /\ IsStrictlyIncreasing(PageNumbers(pages))
    /\ \A k \in 1..Len(pages) : pages[k].pageNumber >= 1

\* C8: when the extraction of a classified page fails, the run ends with
\* status error and an error message, and the page-result list is empty.
C8_ExtractFailureDiscards ==
  [][\A r \in Runs :
       Returns(r, "extract_failed") =>
         status' = "error" /\ error' # NULL /\ pages' = <<>>]_vars

\* C9: when classification returns the empty list, the run ends with status
\* error and the no-schematics message, the extractor is not called, the
\* page-result list is empty and no save is started.
C9_NoSchematics ==
  [][\A r \in Runs :
       Returns(r, "no_schematics") =>
         /\ run[r].schematicIndices = <<>>
         /\ run[r].calls = <<>>
         /\ status' = "error"
         /\ error' = ErrNoSchematics
         /\ pages' = <<>>
         /\ db' = db
         /\ saves' = saves]_vars

\* The fields C10 names as required.
RequiredFields ==
  {"title", "overview", "components", "functionalBlocks", "connectivityLogic"}

\* C10: no page whose extraction response lacked title, overview,
\* components, functionalBlocks or connectivityLogic is surfaced as a
\* result: such a response ends the run in status error.
C10_RequiredFieldsEnforced ==
  \A k \in 1..Len(pages) : RequiredFields \subseteq DOMAIN pages[k].analysis

\* A settled run whose last extraction response was a JSON object carrying
\* every required field.
GotValidResponse(r) ==
  /\ run[r].pc = "done"
  /\ run[r].response.kind = "json"
  /\ RequiredFields \subseteq DOMAIN run[r].response.obj

\* The analysis of the page the extraction step surfaced last.
LastAnalysis == pages[Len(pages)].analysis

\* C11: an extraction response that carries the required fields but no
\* netlist gives an analysis whose netlist is the empty list, and the run
\* completes without an error; a response with a netlist keeps it as it is.
C11_NetlistBackfill ==
  \A r \in DOMAIN run :
    GotValidResponse(r) =>
      /\ run[r].outcome = "complete"
      /\ status = "complete"
      /\ error = NULL
      /\ pages # <<>>
      /\ "netlist" \in DOMAIN LastAnalysis
      /\ LastAnalysis.netlist =
           IF "netlist" \in DOMAIN run[r].response.obj
           THEN run[r].response.obj.netlist
           ELSE <<>>

\* C11 witness: a response without netlist was received and the surfaced
\* analysis has the empty netlist.
C11_Witness ==
  \E r \in DOMAIN run :
    /\ GotValidResponse(r)
    /\ "netlist" \notin DOMAIN run[r].response.obj
    /\ pages # <<>>
    /\ LastAnalysis.netlist = <<>>

\* C12: an extraction response that carries the required fields but no
\* potentialIssues gives an analysis whose potentialIssues is the empty
\* list, and the run completes without an error.
C12_PotentialIssuesBackfill ==
  \A r \in DOMAIN run :
    (GotValidResponse(r) /\ "potentialIssues" \notin DOMAIN run[r].response.obj) =>
      /\ run[r].outcome = "complete"
      /\ pages # <<>>
      /\ "potentialIssues" \in DOMAIN LastAnalysis
      /\ LastAnalysis.potentialIssues = <<>>

\* The categories in the order C13 lists them.
IconOrder ==
  <<"resistor", "capacitor", "inductor", "diode", "transistor", "chip",
    "switch", "connector", "ground", "power">>

\* The rules that have a keyword occurring in the lowercased type.
MatchingRules(type) ==
  {n \in 1..Len(IconRules) :
     \E kw \in IconRules[n].keywords : includes(toLowerCase(type), kw)}

\* The icon C13 expects for a type: the category of the matching rule that
\* comes first, generic when no rule matches.
ExpectedIcon(type) ==
  IF MatchingRules(type) = {} THEN "generic"
  ELSE IconOrder[CHOOSE n \in MatchingRules(type) :
                   \A m \in MatchingRules(type) : n <= m]

\* C13: every component of a surfaced extraction result has the icon of the
\* first rule, in the order resistor .. power, with a keyword occurring in
\* its lowercased type, generic when none matches; Op-Amp gives chip,
\* 10k Resistor gives resistor, Widget gives generic.
C13_IconFromType ==
  /\ IconOrder = [n \in 1..Len(IconRules) |-> IconRules[n].icon]
  /\ \A k \in 1..Len(pages) :
       \A j \in 1..Len(pages[k].analysis.components) :
         LET c == pages[k].analysis.components[j]
         IN /\ c.icon = ExpectedIcon(c.type)
            /\ c.type = <<"O", "p", "-", "A", "m", "p">> => c.icon = "chip"
            /\ c.type = <<"1", "0", "k", " ", "R", "e", "s", "i", "s", "t", "o", "r">>
                 => c.icon = "resistor"
            /\ c.type = <<"W", "i", "d", "g", "e", "t">> => c.icon = "generic"

\* C13 witness: a surfaced component whose type matches the diode rule and
\* the chip rule has the icon of the earlier one.
C13_Witness ==
  \E k \in 1..Len(pages) :
    \E j \in 1..Len(pages[k].analysis.components) :
      LET c == pages[k].analysis.components[j]
      IN /\ c.type = <<"L", "E", "D", " ", "I", "C">>
         /\ Cardinality(MatchingRules(c.type)) = 2
         /\ c.icon = "diode"

\* The status changes C14 lists.
AllowedTransition(from, to) ==
  \/ from = "idle" /\ to = "rendering_pdf"
  \/ from = "rendering_pdf" /\ to = "filtering"
  \/ from = "filtering" /\ to = "analyzing"
  \/ from = "analyzing" /\ to = "complete"
  \/ from # "idle" /\ to = "error"
  \/ from \in {"complete", "error"} /\ to = "idle"

\* C14: every change of status is idle to rendering, rendering to filtering,
\* filtering to analyzing, analyzing to complete, non-idle to error, or
\* complete/error to idle.
C14_StatusTransitions ==
  [][status' # status => AllowedTransition(status, status')]_vars

\* A run that is past its first await.  Such a run has set status to a
\* non-idle value itself, so status idle means a reset came after its start.
PastFirstAwait(r) == run[r].pc \in {"rendering", "batch", "classified", "extract"}

\* C15: a step of a run that was reset while one of its calls was in flight
\* leaves status, the page list, the error message and the progress message
\* as they are.
C15_StaleRunDropped ==
  [][\A r \in DOMAIN run :
       (status = "idle" /\ PastFirstAwait(r) /\ run'[r] # run[r]) =>
         UNCHANGED <<status, pages, error, loadingMessage>>]_vars

\* C16: right after reset, status is idle, the page list is empty, the
\* active page index is 0, there is no project id, name, progress message,
\* error message or component selection.
C16_ResetClearsAll ==
  [][reset =>
       /\ status' = "idle"
       /\ pages' = <<>>
       /\ activePageIndex' = 0
       /\ currentProjectId' = NoId
       /\ currentProjectName' = <<>>
       /\ loadingMessage' = <<>>
       /\ error' = NULL
       /\ selectedComponent' = NULL]_vars

\* The step in which a document is submitted to run slot r.
Submits(r) ==
  run[r].pc \in {"none", "done"} /\ run'[r].pc \in {"rendering", "reading"}

\* C17: right after a document is submitted the page list is empty, there
\* is no project id, error message or component selection, the active page
\* index is 0 and the project name is the file name without its extension
\* (m for the files m.p and m.g).
C17_SubmitClearsPrior ==
  [][\A r \in DOMAIN run :
       Submits(r) =>
         /\ pages' = <<>>
         /\ activePageIndex' = 0
         /\ currentProjectId' = NoId
         /\ error' = NULL
         /\ selectedComponent' = NULL
         /\ currentProjectName' = <<"m">>]_vars

\* C17 witness: a document was submitted after a project had been completed
\* and stored, and nothing of that project is in the orchestrator state.
C17_Witness ==
  /\ \E r \in DOMAIN run : run[r].pc \in {"rendering", "reading"}
  /\ DOMAIN db # {}
  /\ pages = <<>>
  /\ currentProjectId = NoId
  /\ error = NULL
  /\ selectedComponent = NULL
  /\ currentProjectName = <<"m">>

\* A run with an external call outstanding.
InFlight(r) ==
  run[r].pc \in {"rendering", "reading", "batch", "classified", "extract"}

\* C18: at most one pipeline run has an external call outstanding or
\* pending.
C18_OneActiveRun ==
  Cardinality({r \in DOMAIN run : InFlight(r)}) <= 1

\* The ids of the projects handed to saveProject: stored or in flight.
SavedIds == DOMAIN db \cup {saves[k].project.id : k \in 1..Len(saves)}

\* C19: all saves that stem from the one completed run carry one single id,
\* which is the current project id once the first save has resolved.
C19_OneIdPerRun ==
  /\ Cardinality(SavedIds) <= 1
  /\ currentProjectId # NoId => SavedIds = {currentProjectId}

\* The step in which the oldest saveProject call fails: it leaves the queue
\* and the store is as before.
SaveFails == saves # <<>> /\ saves' = Tail(saves) /\ db' = db

\* C20: a failing saveProject call, of the first save or of a re-save,
\* leaves status, the page list and the error message as they are.
C20_SaveFailureNonFatal ==
  [][SaveFails => UNCHANGED <<status, pages, error>>]_vars

\* C20 witness: the project was stored, then edited, and the re-save of the
\* edit failed: the view is complete with the edited pages and no error.
C20_Witness ==
  /\ status = "complete"
  /\ error = NULL
  /\ saves = <<>>
  /\ currentProjectId \in DOMAIN db
  /\ pages # db[currentProjectId].pages
  /\ pages[1].analysis.title = "E"

\* What an export shows of a page list: page numbers and analyses, in order.
Exported(pgs) ==
  [k \in 1..Len(pgs) |->
     [pageNumber |-> pgs[k].pageNumber, analysis |-> pgs[k].analysis]]

\* The step in which a document is exported.
Exports == Len(downloads') = Len(downloads) + 1

\* C27: an export yields the project name and the pages in order, each with
\* its pageNumber and analysis only; it changes neither the page list nor
\* the project identity nor the status nor the store; and when the project
\* is as it was at the previous export, the new document and its file name
\* equal the previous ones in everything but exportedAt.
C27_ExportDeterministic ==
  [][Exports =>
       LET new == downloads'[Len(downloads')]
       IN /\ new.content.metadata.projectName = currentProjectName
          /\ new.content.metadata.tool = "CircuitMind"
          /\ new.content.pages = Exported(pages)
          /\ UNCHANGED <<status, pages, activePageIndex, currentProjectId,
                         currentProjectName, db, saves>>
          /\ (/\ downloads # <<>>
              /\ downloads[Len(downloads)].content.pages = Exported(pages)
              /\ downloads[Len(downloads)].content.metadata.projectName
                   = currentProjectName)
             => /\ new.download = downloads[Len(downloads)].download
                /\ new.content =
                     [downloads[Len(downloads)].content
                        EXCEPT !.metadata.exportedAt = new.content.metadata.exportedAt]]_vars

\* C27 witness: an edited project was exported twice, at different times,
\* with no edit in between.
C27_Witness ==
  /\ Len(downloads) = 2
  /\ pages # <<>>
  /\ pages[1].analysis.title = "E"
  /\ downloads[1].content.pages = Exported(pages)
  /\ downloads[2].content.pages = Exported(pages)
  /\ downloads[1].content.metadata.exportedAt
       # downloads[2].content.metadata.exportedAt

\* A step that is no user action: a call of a run settles, or the oldest
\* saveProject call settles.
Settles ==
  \/ \E r \in DOMAIN run : run'[r] # run[r] /\ ~Submits(r)
  \/ saves' # saves /\ Len(saves') <= Len(saves)

\* The active state is exactly the stored project P with status complete,
\* as a load of P leaves it.
ActiveIs(P) ==
  /\ status = "complete"
  /\ pages = P.pages
  /\ currentProjectId = P.id
  /\ currentProjectName = P.name
  /\ activePageIndex = 0

\* C21: the step that loads a stored project P makes the page list, the
\* project id and the name those of P, the active page index 0 and status
\* complete; and while the active state is that of a stored project, no
\* step other than a user action changes it.
C21_LoadReplacesWholesale ==
  [][/\ \A id \in DOMAIN db :
          handleLoadProject(id) =>
            /\ status' = "complete"
            /\ pages' = db[id].pages
            /\ currentProjectId' = id
            /\ currentProjectName' = db[id].name
            /\ activePageIndex' = 0
     /\ \A id \in DOMAIN db :
          (ActiveIs(db[id]) /\ Settles) =>
            UNCHANGED <<status, pages, currentProjectId, currentProjectName,
                        activePageIndex>>]_vars

\* Most recently saved first: timestamps never increase along the list.
IsByRecency(list) ==
  \A j \in 1..(Len(list) - 1) : list[j].timestamp >= list[j + 1].timestamp

\* C30: getAllProjects returns the stored projects most recently saved
\* first.
C30_ListedByRecency ==
  /\ Len(getAllProjects(db)) = Cardinality(DOMAIN db)
  /\ IsByRecency(getAllProjects(db))

\* A run that read an image file and is past the read.
IsImageRun(r) ==
  /\ run[r].pc \in {"classified", "extract"}
  /\ run[r].numPages = 0
  /\ Len(run[r].images) = 1

\* C22: the run of an image file leaves the read with one image, without a
\* classification request and with position 0 as the only classified page;
\* it never asks for a classification, calls the extractor once, and when
\* that call yields a valid result the run ends in complete with one page
\* result whose page number is 1.
C22_SingleImageRun ==
  [][\A r \in DOMAIN run :
       /\ (run[r].pc = "reading" /\ run'[r] # run[r]) =>
            /\ run'[r].pc = "classified"
            /\ Len(run'[r].images) = 1
            /\ run'[r].numPages = 0
            /\ run'[r].requests = <<>>
            /\ run'[r].schematicIndices = <<0>>
       /\ IsImageRun(r) =>
            /\ run[r].requests = <<>>
            /\ run[r].received = <<>>
            /\ run[r].pc = "extract" => run[r].calls = <<0>>
            /\ run'[r].pc \in {"classified", "extract", "done"}
            /\ run'[r].pc # "done" =>
                 run'[r].requests = <<>> /\ Len(run'[r].calls) <= 1
            /\ (run[r].pc = "extract" /\ GotValidResponse(r)') =>
                 /\ Returns(r, "complete")
                 /\ status' = "complete"
                 /\ Len(pages') = 1
                 /\ pages'[1].pageNumber = 1]_vars

C22_Witness ==
  \E r \in DOMAIN run :
    /\ GotValidResponse(r)
    /\ run[r].outcome = "complete"
    /\ status = "complete"
    /\ Len(pages) = 1
    /\ pages[1].image = 1
    /\ currentProjectName = <<"m">>
    /\ loadingMessage = MsgAnalyzingPage(0, 0, 1)

NoRepeat(seq) == \A j, k \in DOMAIN seq : seq[j] = seq[k] => j = k

\* C23: no classification batch offset is requested twice and no page is
\* handed to the extractor twice within a run, and a run that has returned
\* makes no call until a document is submitted again.
C23_NoRetries ==
  [][\A r \in DOMAIN run :
       /\ NoRepeat(run'[r].requests)
       /\ NoRepeat(run'[r].calls)
       /\ (run[r].pc = "done" /\ run'[r] # run[r]) => Submits(r)]_vars

\* The external calls of run r that have not settled.
Outstanding(r) ==
  (IF run[r].pc \in {"rendering", "reading"} THEN 1 ELSE 0)
    + (Len(run[r].requests) - Len(run[r].received))
    + (Len(run[r].calls) - Len(run[r].results))

\* The least number of groups of 5 that hold n items.
CeilBy5(n) == (n + 4) \div 5

\* C24: while a run rasterizes it has made no classification and no
\* extraction request; once it has made an extraction request every batch
\* of its images has been requested and has settled; batch offsets are
\* requested in ascending order; and the run never has two calls
\* outstanding.
C24_StagesSequential ==
  \A r \in DOMAIN run :
    /\ run[r].pc \in {"rendering", "reading"} =>
         run[r].requests = <<>> /\ run[r].calls = <<>>
    /\ run[r].pc = "batch" => run[r].calls = <<>>
    /\ run[r].calls # <<>> =>
         /\ run[r].pc = "extract"
         /\ Len(run[r].received) = Len(run[r].requests)
         /\ Len(run[r].images) # 1 =>
              Len(run[r].requests) = CeilBy5(Len(run[r].images))
    /\ \A j, k \in DOMAIN run[r].requests :
         j < k => run[r].requests[j] < run[r].requests[k]
    /\ Outstanding(r) <= 1

C24_Witness ==
  \E r \in DOMAIN run :
    /\ run[r].pc = "extract"
    /\ run[r].numPages > 10
    /\ Len(run[r].requests) = 3
    /\ Len(run[r].calls) = 2
    /\ Len(run[r].results) = 1

\* C25: for an image sequence of length n other than 1 the k-th batch
\* requested (k from 0) starts at position 5k and holds the images at the
\* positions 5k to min(5k+4, n-1), at least one and at most 5; when the
\* classification has returned, ceil(n/5) batches were requested.
C25_BatchPartition ==
  \A r \in DOMAIN run :
    (run[r].pc \in {"batch", "classified", "extract"}
       /\ Len(run[r].images) # 1) =>
      LET n == Len(run[r].images)
          issued == Len(run[r].requests)
      IN /\ Len(run[r].batches) = issued
         /\ issued <= CeilBy5(n)
         /\ run[r].pc \in {"classified", "extract"} => issued = CeilBy5(n)
         /\ \A k \in 0..(issued - 1) :
              /\ run[r].requests[k + 1] = 5 * k
              /\ run[r].batches[k + 1] =
                   [j \in 1..(Min(5 * k + 4, n - 1) - 5 * k + 1) |->
                      run[r].images[5 * k + j]]
              /\ Len(run[r].batches[k + 1]) \in 1..5

C25_Witness ==
  \E r \in DOMAIN run :
    /\ run[r].pc = "classified"
    /\ Len(run[r].images) = 12
    /\ Len(run[r].requests) = 3
    /\ Len(run[r].batches[3]) = 2

\* C26: when convertPdfToImages resolves for a document of N pages, the
\* images are the renderings of the pages 1 to min(N, 20) whose canvas gave
\* a context, in page order and each once; they are at most 20, no page
\* beyond the 20th is among them, and the run goes on to the classification
\* whatever N is: status becomes filtering and no error message is set.
C26_RasterizerCap ==
  [][\A r \in DOMAIN run :
       (run[r].pc = "rendering" /\ run'[r].pc \notin {"rendering", "done"}) =>
         LET N == run'[r].numPages
             images == run'[r].images
         IN /\ Len(images) <= 20
            /\ \A p \in 1..MaxDocPages + 1 :
                 (\E k \in DOMAIN images : images[k] = p)
                   <=> (p <= N /\ p <= 20 /\ p \notin run'[r].skipped)
            /\ \A j, k \in DOMAIN images : j < k => images[j] < images[k]
            /\ run'[r].pc \in {"batch", "classified"}
            /\ status' = "filtering"
            /\ error' = error]_vars

C26_Witness ==
  \E r \in DOMAIN run :
    /\ run[r].numPages > 20
    /\ Len(run[r].images) = 20
    /\ run[r].images[20] = 20
    /\ status = "filtering"
    /\ error = NULL

\* C28: a notes edit of the component at index i of the active page sets the
\* notes of that component to the value typed and leaves its other fields,
\* every other component, every other field of the analysis and every
\* other page as they are.
C28_NotesEditFrame ==
  [][\A index \in 0..(MaxComponents - 1), value \in {"M"} :
       handleChange(index, "notes", value) =>
         LET k == activePageIndex + 1
             old == pages[k].analysis
             new == pages'[k].analysis
         IN /\ DOMAIN pages' = DOMAIN pages
            /\ \A j \in DOMAIN pages : j # k => pages'[j] = pages[j]
            /\ DOMAIN pages'[k] = DOMAIN pages[k]
            /\ \A f \in DOMAIN pages[k] \ {"analysis"} :
                 pages'[k][f] = pages[k][f]
            /\ DOMAIN new = DOMAIN old
            /\ \A f \in DOMAIN old \ {"components"} : new[f] = old[f]
            /\ DOMAIN new.components = DOMAIN old.components
            /\ \A j \in DOMAIN old.components :
                 j # index + 1 => new.components[j] = old.components[j]
            /\ DOMAIN new.components[index + 1]
                 = DOMAIN old.components[index + 1]
            /\ \A f \in DOMAIN old.components[index + 1] \ {"notes"} :
                 new.components[index + 1][f] = old.components[index + 1][f]
            /\ new.components[index + 1].notes = value]_vars

C28_Witness ==
  /\ status = "complete"
  /\ Len(pages) = 1
  /\ Len(pages[1].analysis.components) = 2
  /\ pages[1].analysis.components[1].notes = "N"
  /\ pages[1].analysis.components[2].notes = "M"
  /\ pages[1].analysis.components[2].designator = "C2"

\* C29: an edit of the analysis of the page shown changes the analysis of
\* that page only: the page list keeps its length, every other page and the
\* id, page number and image of the edited page stay as they are; and the
\* call with null arguments at the end of reset leaves the page list as
\* reset has set it, empty.
C29_AnalysisUpdateFrame ==
  [][/\ \A value \in {"E", "F"} :
          handleFieldChange("title", value) =>
            LET k == activePageIndex + 1
            IN /\ DOMAIN pages' = DOMAIN pages
               /\ \A j \in DOMAIN pages : j # k => pages'[j] = pages[j]
               /\ DOMAIN pages'[k] = DOMAIN pages[k]
               /\ pages'[k].id = pages[k].id
               /\ pages'[k].pageNumber = pages[k].pageNumber
               /\ pages'[k].image = pages[k].image
               /\ pages'[k].analysis.title = value
     /\ reset => pages' = <<>>]_vars

C29_Witness ==
  /\ status = "complete"
  /\ Len(pages) = 2
  /\ activePageIndex = 1
  /\ pages[1].analysis.title = "T"
  /\ pages[2].analysis.title = "E"
  /\ pages[2].pageNumber = 2
  /\ pages[2].image = 2

\* C31: a run that has been started leads to status complete or error.
C31_RunsTerminate ==
  (\E r \in {1} : run[r].pc \in {"rendering", "reading"})
    ~> (status \in {"complete", "error"})

\* C32: when a run completes and its pages are handed to saveProject, the id
\* of the project saved is neither the id of a stored project nor the id of
\* a save that is already in flight.
C32_FreshRunFreshId ==
  [][\A r \in DOMAIN run :
       (Returns(r, "complete") /\ Len(saves') > Len(saves)) =>
         saves'[Len(saves')].project.id \notin SavedIds]_vars

\* C37: loading a stored project starts no saveProject call, so the store
\* and the saves in flight are as before.
C37_LoadWritesNothing ==
  [][\A id \in DOMAIN db :
       handleLoadProject(id) => saves' = saves /\ db' = db]_vars

\* C38: whenever status is complete the page list is not empty; a
\* saveProject call is started only by a step that ends with status
\* complete and a page list that is not empty; and no project stored or on
\* its way to the store has an empty page list.
C38_NoEmptyProject ==
  [][/\ status' = "complete" => Len(pages') > 0
     /\ Len(saves') > Len(saves) =>
          /\ status' = "complete"
          /\ Len(pages') > 0
          /\ saves'[Len(saves')].project.pages = pages'
     /\ \A id \in DOMAIN db' : Len(db'[id].pages) > 0
     /\ \A k \in DOMAIN saves' : Len(saves'[k].project.pages) > 0]_vars

C38_Witness ==
  /\ status = "complete"
  /\ Len(pages) = 1
  /\ currentProjectId \in DOMAIN db
  /\ db[currentProjectId].pages = pages
  /\ saves # <<>>

\* C34: the image at 0-based position k of the rasterized sequence renders
\* document page k + 1, and the page number of every page result is the
\* number of the document page its image renders.
C34_PagePositions ==
  /\ \A r \in DOMAIN run :
       \A k \in DOMAIN run[r].images : run[r].images[k] = k
  /\ \A k \in DOMAIN pages : pages[k].pageNumber = pages[k].image

\* C33: when an extraction call of a run yields a result, the page result
\* added has the page number of the page the call was made for, its image
\* is the image at position pageNumber - 1 of the run's images, its
\* analysis is what the extractor made of the response to that call, and
\* the page results obtained before are kept; when the run completes, the
\* page list is that list of page results.
C33_PageResultBinding ==
  [][\A r \in DOMAIN run :
       (run[r].pc = "extract" /\ run'[r] # run[r]
          /\ run'[r].outcome # "extract_failed") =>
         LET new == IF run'[r].pc = "done" THEN pages' ELSE run'[r].results
             last == new[Len(new)]
         IN /\ Len(new) = Len(run[r].results) + 1
            /\ \A k \in DOMAIN run[r].results : new[k] = run[r].results[k]
            /\ last.pageNumber - 1 = run[r].calls[Len(run[r].calls)]
            /\ last.pageNumber \in DOMAIN run[r].images
            /\ last.image = run[r].images[last.pageNumber]
            /\ last.analysis
                 = analyzeSchematicImage(last.image, run'[r].response).analysis]_vars

C33_Witness ==
  /\ status = "complete"
  /\ Len(pages) = 2
  /\ pages[1].pageNumber = 2 /\ pages[1].image = 2
  /\ pages[2].pageNumber = 1 /\ pages[2].image = 1
  /\ pages[1].analysis.components[1].icon = "chip"
  /\ pages[2].analysis.components[1].icon = "resistor"

\* C35: every component of every page has the icon the keyword table
\* assigns to its type.
C35_IconFollowsType ==
  \A k \in DOMAIN pages :
    "components" \in DOMAIN pages[k].analysis =>
      \A j \in DOMAIN pages[k].analysis.components :
        LET c == pages[k].analysis.components[j]
        IN c.icon = ExpectedIcon(c.type)

\* The designators of a component list are pairwise distinct.
DistinctDesignators(components) ==
  \A j, k \in DOMAIN components :
    components[j].designator = components[k].designator => j = k

\* C36: an Add Component step on a page whose designators are pairwise
\* distinct leaves them pairwise distinct.
C36_AddKeepsDistinct ==
  [][(handleAdd /\ DistinctDesignators(activePage.analysis.components)) =>
       DistinctDesignators(pages'[activePageIndex + 1].analysis.components)]_vars

\* C39: the active page index is at least 0 and, when the page list is not
\* empty, smaller than its length.
C39_ActiveIndexInRange ==
  /\ activePageIndex >= 0
  /\ Len(pages) > 0 => activePageIndex < Len(pages)

\* C39 witness: a project of one page is shown while a project of two pages
\* is in the store.
C39_Witness ==
  /\ status = "complete"
  /\ Len(pages) = 1
  /\ activePageIndex = 0
  /\ currentProjectId \in DOMAIN db
  /\ db[currentProjectId].pages = pages
  /\ \E id \in DOMAIN db : Len(db[id].pages) = 2

\* C40: a record appears in the store under an id that is not in it only
\* by the first save of a completed run, which carries an id drawn for that
\* run; no other save brings a record into the store.
C40_DeletedStaysDeleted ==
  [][\A id \in DOMAIN db' :
       id \notin DOMAIN db => (saves # <<>> /\ Head(saves).first)]_vars

====
